---- MODULE Spec2Model ----
(***************************************************************************)
(* Random graph generators of zen (src/zen/generating/rgm.pyx):            *)
(* barabasi_albert and erdos_renyi, the graph they fill and the C library  *)
(* random source (srand/rand) they draw from.                              *)
(*                                                                         *)
(* One Python process makes a sequence of generator calls.  The state of   *)
(* the C random source is process-global and survives from call to call;   *)
(* everything else is local to the call in progress.                       *)
(***************************************************************************)
EXTENDS Integers, Sequences, FiniteSets

VARIABLES
    rand_table,       \* libc: the value rand() returns in each generator state
    rand_pos,         \* libc: the generator state (process-global)
    pc,               \* "idle", "ba_init", "ba_grow", "er_init", "er_grow", "done", "error"
    args,             \* the resolved arguments of the call in progress
    kwargs,           \* the keyword names the caller passed
    unknown,          \* the keyword names left in kwargs after the pops
    err,              \* the exception raised ("" when none)
    G,                \* the graph: [nodes, edges (in insertion order)]
    new_node_idx,     \* barabasi_albert loop variables
    e,
    num_endpoints,
    delta_endpoints,
    i,                \* erdos_renyi loop variables
    j,
    draws,            \* number of rand() calls made by the call in progress
    srand_called,     \* whether the call in progress called srand
    round_targets,    \* history: the scan results of the current attachment round
    watch,            \* observer: the invocation whose repetitions are compared
    first             \* observer: the edges of the first completed watched invocation

vars == <<rand_table, rand_pos, pc, args, kwargs, unknown, err, G, new_node_idx, e,
          num_endpoints, delta_endpoints, i, j, draws, srand_called, round_targets,
          watch, first>>

---------------------------------------------------------------------------
(* Bounds of the model *)

\* largest n (and m) passed to barabasi_albert
MaxN == 5
\* largest n passed to erdos_renyi
MaxNodesER == 3
\* largest value rand() returns
RAND_MAX == 2
\* period of the random generator
RandPeriod == 2

---------------------------------------------------------------------------
(* Inputs *)

Keys == {"directed", "self_loops", "seed", "bogus"}

\* p as a fraction <<numerator, denominator>>: -1/2, 0, 1/2, 1, 3/2
PVals == {<<0 - 1, 2>>, <<0, 1>>, <<1, 2>>, <<1, 1>>, <<3, 2>>}

\* the seeds passed when the keyword seed is present
SeedVals == {0, 1}

\* keyword arguments: the names passed; directed and self_loops are passed as True
KwArgs == [keys : SUBSET Keys, seed : SeedVals]

NoCall == [fn |-> "none", n |-> 0, m |-> 0, p |-> <<0, 1>>, directed |-> FALSE,
           self_loops |-> FALSE, seed |-> 0 - 1]

\* the seeded invocations whose repetitions are compared
WatchedCalls ==
    { [fn |-> "erdos_renyi", n |-> 3, m |-> 0, p |-> <<1, 2>>, directed |-> FALSE,
       self_loops |-> FALSE, seed |-> 0],
      [fn |-> "erdos_renyi", n |-> 2, m |-> 0, p |-> <<1, 2>>, directed |-> TRUE,
       self_loops |-> TRUE, seed |-> 0],
      [fn |-> "barabasi_albert", n |-> 4, m |-> 1, p |-> <<0, 1>>, directed |-> FALSE,
       self_loops |-> FALSE, seed |-> 0],
      [fn |-> "barabasi_albert", n |-> 4, m |-> 2, p |-> <<0, 1>>, directed |-> TRUE,
       self_loops |-> FALSE, seed |-> 0] }

EmptyGraph == [nodes |-> 0, edges |-> <<>>]

---------------------------------------------------------------------------
(* The C library random source *)

\* srand(seed): the generator state a seed selects
SeedPos(seed) == seed % RandPeriod

\* the state after one rand()
NextPos(pos) == (pos + 1) % RandPeriod

\* Cython's % on C ints (cdivision off): the result takes the sign of the divisor
PyMod(a, b) == IF b > 0 THEN a % b ELSE 0 - ((0 - a) % (0 - b))

---------------------------------------------------------------------------
(* The graph store (zen.graph.Graph, zen.digraph.DiGraph) *)

AddNodes(g, n) == [g EXCEPT !.nodes = g.nodes + (IF n > 0 THEN n ELSE 0)]

HasNode(g, u) == u >= 0 /\ u < g.nodes

HasEdge(g, directed, u, v) ==
    \E x \in 1..Len(g.edges) :
        \/ g.edges[x] = <<u, v>>
        \/ ~directed /\ g.edges[x] = <<v, u>>

AddEdge(g, u, v) == [g EXCEPT !.edges = Append(g.edges, <<u, v>>)]

\* node_info[u].degree of the undirected graph
Degree(g, u) ==
    Cardinality({x \in 1..Len(g.edges) : g.edges[x][1] = u \/ g.edges[x][2] = u})

\* node_info[u].indegree, node_info[u].outdegree of the directed graph
InDegree(g, u) == Cardinality({x \in 1..Len(g.edges) : g.edges[x][2] = u})

OutDegree(g, u) == Cardinality({x \in 1..Len(g.edges) : g.edges[x][1] = u})

---------------------------------------------------------------------------
(* Keyword handling *)

\* faulty variant: barabasi_albert also swallows self_loops
BAKeysLax == {"seed", "directed", "self_loops"}

\* the keywords each entry point pops
BAKeys == {"seed", "directed"}

ERKeys == {"directed", "self_loops", "seed"}

\* what is left in kwargs after the pops
Leftover(keys, popped) == keys \ popped

\* kwargs.pop('seed', None), then None becomes -1
SeedArg(kw) == IF "seed" \in kw.keys THEN kw.seed ELSE 0 - 1

\* kwargs.pop(name, False)
FlagArg(kw, name) == name \in kw.keys

\* faulty variant: seed 0 is taken for "no seed"
SeededPositive(seed) == seed > 0

\* the guard of every srand call
Seeded(seed) == seed >= 0

---------------------------------------------------------------------------
(* barabasi_albert helpers *)

\* the weight the scan adds for candidate u
Weight(g, directed, u) ==
    IF directed THEN InDegree(g, u) + OutDegree(g, u) ELSE Degree(g, u)

\* faulty variant: the draw is not rescaled over the remaining weight
ModulusIgnoringDelta(num, delta) == num

\* the modulus of the draw (C ints, far below 2^31 for the graphs reached here)
Modulus(num, delta) == num - delta

RECURSIVE ScanFrom(_, _, _, _, _, _)
ScanFrom(g, directed, k, rnd, u, running_sum) ==
    IF u >= k THEN 0 - 1
    ELSE IF HasEdge(g, directed, k, u) THEN ScanFrom(g, directed, k, rnd, u + 1, running_sum)
    ELSE IF running_sum + Weight(g, directed, u) > rnd THEN u
    ELSE ScanFrom(g, directed, k, rnd, u + 1, running_sum + Weight(g, directed, u))

\* faulty variant: the scan does not skip the nodes already connected to the new node
RECURSIVE ScanFromNoSkip(_, _, _, _, _, _)
ScanFromNoSkip(g, directed, k, rnd, u, running_sum) ==
    IF u >= k THEN 0 - 1
    ELSE IF running_sum + Weight(g, directed, u) > rnd THEN u
    ELSE ScanFromNoSkip(g, directed, k, rnd, u + 1, running_sum + Weight(g, directed, u))

ScanNoSkip(g, directed, k, rnd) == ScanFromNoSkip(g, directed, k, rnd, 0, 0)

\* the inner for loop: the selected target, -1 when the loop ends without one
Scan(g, directed, k, rnd) == ScanFrom(g, directed, k, rnd, 0, 0)

\* faulty variant: the undirected case forgets that the degree already counts the new edge
DeltaIncNoComp(g, directed, u, node_degree) ==
    IF directed THEN node_degree ELSE Degree(g, u)

\* what is added to delta_endpoints; g is the graph after the insertion and
\* node_degree the weight read before it
DeltaInc(g, directed, u, node_degree) ==
    IF directed THEN node_degree ELSE Degree(g, u) - 1

\* faulty variant: one endpoint per edge instead of two
EndpointsAfterRoundHalf(num, m) == num + m

\* num_endpoints after a node has finished being added
EndpointsAfterRound(num, m) == num + m * 2

\* the bootstrap edges (m,0), ..., (m,m-1)
Bootstrap(m) == [x \in 1..(IF m > 0 THEN m ELSE 0) |-> <<m, x - 1>>]

---------------------------------------------------------------------------
(* erdos_renyi helpers *)

\* faulty variant: the undirected rows never start at the diagonal
FirstJNoLoops(directed, self_loops, row) == IF directed THEN 0 ELSE row + 1

\* the first j of row i
FirstJ(directed, self_loops, row) ==
    IF directed THEN 0 ELSE IF self_loops THEN row ELSE row + 1

\* rnd = rand() / RAND_MAX; rnd < p, with p = pv[1] / pv[2].  The quotient is
\* compared as an exact fraction: the conversion to float is monotone and maps
\* rand() = RAND_MAX to exactly 1.0 and rand() = 0 to exactly 0.0.
Below(r, pv) == r * pv[2] < pv[1] * RAND_MAX

---------------------------------------------------------------------------
(* Initial states *)

InitCommon ==
    /\ rand_table \in [0..(RandPeriod - 1) -> 0..RAND_MAX]
    /\ rand_pos = SeedPos(1)
    /\ pc = "idle"
    /\ args = NoCall
    /\ kwargs = {}
    /\ unknown = {}
    /\ err = ""
    /\ G = EmptyGraph
    /\ new_node_idx = 0
    /\ e = 0
    /\ num_endpoints = 0
    /\ delta_endpoints = 0
    /\ i = 0
    /\ j = 0
    /\ draws = 0
    /\ srand_called = FALSE
    /\ round_targets = <<>>
    /\ first = [set |-> FALSE, edges |-> <<>>]

Init == InitCommon /\ watch = NoCall

InitRepeat == InitCommon /\ watch \in WatchedCalls

---------------------------------------------------------------------------
(* Entry points *)

\* the observer notes the edges of the first completed watched invocation
Observe ==
    first' = IF pc = "done" /\ args = watch /\ ~first.set
             THEN [set |-> TRUE, edges |-> G.edges]
             ELSE first

\* the call has returned or raised: the caller takes the result and the locals
\* of the call are gone; only the state of the random source stays
CallerResumes ==
    /\ pc \in {"done", "error"}
    /\ pc' = "idle"
    /\ args' = NoCall
    /\ kwargs' = {}
    /\ unknown' = {}
    /\ err' = ""
    /\ G' = EmptyGraph
    /\ new_node_idx' = 0
    /\ e' = 0
    /\ num_endpoints' = 0
    /\ delta_endpoints' = 0
    /\ i' = 0
    /\ j' = 0
    /\ draws' = 0
    /\ srand_called' = FALSE
    /\ round_targets' = <<>>
    /\ Observe
    /\ UNCHANGED <<rand_table, rand_pos, watch>>

\* what a call leaves alone before it reaches its inner function
CallFrame ==
    UNCHANGED <<rand_table, rand_pos, G, new_node_idx, e, num_endpoints, delta_endpoints,
                i, j, draws, srand_called, round_targets, watch, first>>

\* barabasi_albert(n, m, **kwargs) up to the dispatch to the inner function
CallBarabasiAlbert ==
    /\ pc = "idle"
    /\ \E n \in 0..MaxN, m \in (0 - 1)..MaxN, kw \in KwArgs :
          /\ kwargs' = kw.keys
          /\ unknown' = Leftover(kw.keys, BAKeys)
          /\ args' = [fn |-> "barabasi_albert", n |-> n, m |-> m, p |-> <<0, 1>>,
                      directed |-> FlagArg(kw, "directed"), self_loops |-> FALSE,
                      seed |-> SeedArg(kw)]
          /\ IF Leftover(kw.keys, BAKeys) # {}
             THEN pc' = "error" /\ err' = "ZenException"
             ELSE pc' = "ba_init" /\ err' = ""
    /\ CallFrame

\* erdos_renyi(n, p, **kwargs) up to the dispatch to the inner function
CallErdosRenyi ==
    /\ pc = "idle"
    /\ \E n \in (0 - 1)..MaxNodesER, pv \in PVals, kw \in KwArgs :
          /\ kwargs' = kw.keys
          /\ unknown' = Leftover(kw.keys, ERKeys)
          /\ args' = [fn |-> "erdos_renyi", n |-> n, m |-> 0, p |-> pv,
                      directed |-> FlagArg(kw, "directed"),
                      self_loops |-> FlagArg(kw, "self_loops"),
                      seed |-> SeedArg(kw)]
          /\ IF Leftover(kw.keys, ERKeys) # {}
             THEN pc' = "error" /\ err' = "ZenException"
             ELSE pc' = "er_init" /\ err' = ""
    /\ CallFrame

---------------------------------------------------------------------------
(* __inner_barabasi_albert_udir, __inner_barabasi_albert_dir *)

\* add the nodes, seed, add the bootstrap edges, num_endpoints = 2 * m
BAInit ==
    /\ pc = "ba_init"
    /\ rand_pos' = IF Seeded(args.seed) THEN SeedPos(args.seed) ELSE rand_pos
    /\ srand_called' = Seeded(args.seed)
    /\ IF args.m > 0 /\ ~HasNode(AddNodes(EmptyGraph, args.n), args.m)
       THEN \* add_edge_(m, 0): node m does not exist
            /\ G' = AddNodes(EmptyGraph, args.n)
            /\ pc' = "error"
            /\ err' = "InvalidNode"
            /\ UNCHANGED <<num_endpoints, new_node_idx>>
       ELSE /\ G' = [AddNodes(EmptyGraph, args.n) EXCEPT !.edges = Bootstrap(args.m)]
            /\ num_endpoints' = 2 * args.m
            /\ new_node_idx' = args.m + 1
            /\ pc' = "ba_grow"
            /\ err' = ""
    /\ e' = 0
    /\ delta_endpoints' = 0
    /\ UNCHANGED <<rand_table, args, kwargs, unknown, i, j, draws, round_targets,
                   watch, first>>

\* one iteration of "for e in range(m)": a draw, the scan, the insertion
BADraw ==
    /\ pc = "ba_grow"
    /\ new_node_idx < args.n
    /\ e < args.m
    /\ rand_pos' = NextPos(rand_pos)
    /\ draws' = draws + 1
    /\ LET md == Modulus(num_endpoints, delta_endpoints) IN
       IF md = 0
       THEN /\ pc' = "error"
            /\ err' = "ZeroDivisionError"
            /\ UNCHANGED <<G, e, delta_endpoints, round_targets>>
       ELSE LET rnd == PyMod(rand_table[rand_pos], md)
                t == Scan(G, args.directed, new_node_idx, rnd)
            IN  /\ round_targets' = Append(round_targets, t)
                /\ IF t < 0
                   THEN \* the scan ended without a target: no edge for this e
                        /\ e' = e + 1
                                            /\ UNCHANGED <<G, delta_endpoints, pc, err>>
                   ELSE IF HasEdge(G, args.directed, new_node_idx, t)
                   THEN \* add_edge_ refuses a duplicate edge
                        /\ pc' = "error"
                        /\ err' = "DuplicateEdge"
                        /\ UNCHANGED <<G, e, delta_endpoints>>
                   ELSE LET node_degree == Weight(G, args.directed, t)
                            g2 == AddEdge(G, new_node_idx, t)
                        IN  /\ G' = g2
                            /\ delta_endpoints' =
                                   delta_endpoints + DeltaInc(g2, args.directed, t, node_degree)
                            /\ e' = e + 1
                            /\ UNCHANGED <<pc, err>>
    /\ UNCHANGED <<rand_table, args, kwargs, unknown, new_node_idx, num_endpoints, i, j,
                   srand_called, watch, first>>

\* the node has dropped its m edges: num_endpoints += m * 2, next node
BAEndRound ==
    /\ pc = "ba_grow"
    /\ new_node_idx < args.n
    /\ e >= args.m
    /\ num_endpoints' = EndpointsAfterRound(num_endpoints, args.m)
    /\ new_node_idx' = new_node_idx + 1
    /\ e' = 0
    /\ delta_endpoints' = 0
    /\ round_targets' = <<>>
    /\ UNCHANGED <<rand_table, rand_pos, pc, args, kwargs, unknown, err, G, i, j, draws,
                   srand_called, watch, first>>

\* return G
BAReturn ==
    /\ pc = "ba_grow"
    /\ new_node_idx >= args.n
    /\ pc' = "done"
    /\ UNCHANGED <<rand_table, rand_pos, args, kwargs, unknown, err, G, new_node_idx, e,
                   num_endpoints, delta_endpoints, i, j, draws, srand_called,
                   round_targets, watch, first>>

---------------------------------------------------------------------------
(* __erdos_renyi_undirected, __erdos_renyi_directed *)

\* seed, add the nodes, enter the first row
ERInit ==
    /\ pc = "er_init"
    /\ rand_pos' = IF Seeded(args.seed) THEN SeedPos(args.seed) ELSE rand_pos
    /\ srand_called' = Seeded(args.seed)
    /\ G' = AddNodes(EmptyGraph, args.n)
    /\ i' = 0
    /\ j' = FirstJ(args.directed, args.self_loops, 0)
    /\ pc' = "er_grow"
    /\ UNCHANGED <<rand_table, args, kwargs, unknown, err, new_node_idx, e, num_endpoints,
                   delta_endpoints, draws, round_targets, watch, first>>

\* one iteration of the inner loop over j
ERPair ==
    /\ pc = "er_grow"
    /\ i < args.n
    /\ j < args.n
    /\ j' = j + 1
    /\ IF args.directed /\ i = j /\ ~args.self_loops
       THEN UNCHANGED <<rand_pos, draws, G>>
       ELSE /\ rand_pos' = NextPos(rand_pos)
            /\ draws' = draws + 1
            /\ G' = IF Below(rand_table[rand_pos], args.p) THEN AddEdge(G, i, j) ELSE G
    /\ UNCHANGED <<rand_table, pc, args, kwargs, unknown, err, new_node_idx, e,
                   num_endpoints, delta_endpoints, i, srand_called, round_targets,
                   watch, first>>

\* the inner loop is exhausted: next i
ERNextRow ==
    /\ pc = "er_grow"
    /\ i < args.n
    /\ j >= args.n
    /\ i' = i + 1
    /\ j' = FirstJ(args.directed, args.self_loops, i + 1)
    /\ UNCHANGED <<rand_table, rand_pos, pc, args, kwargs, unknown, err, G, new_node_idx,
                   e, num_endpoints, delta_endpoints, draws, srand_called, round_targets,
                   watch, first>>

\* return G
ERReturn ==
    /\ pc = "er_grow"
    /\ i >= args.n
    /\ pc' = "done"
    /\ UNCHANGED <<rand_table, rand_pos, args, kwargs, unknown, err, G, new_node_idx, e,
                   num_endpoints, delta_endpoints, i, j, draws, srand_called,
                   round_targets, watch, first>>

---------------------------------------------------------------------------

Next ==
    \/ CallBarabasiAlbert
    \/ CallErdosRenyi
    \/ BAInit
    \/ BADraw
    \/ BAEndRound
    \/ BAReturn
    \/ ERInit
    \/ ERPair
    \/ ERNextRow
    \/ ERReturn
    \/ CallerResumes

Spec == Init /\ [][Next]_vars

\* the same program, observed for the repetitions of one invocation
SpecRepeat == InitRepeat /\ [][Next]_vars

---------------------------------------------------------------------------
(* Properties *)

IsBA == args.fn = "barabasi_albert"

IsER == args.fn = "erdos_renyi"

\* the keywords the interface recognizes
Recognized == IF IsER THEN {"directed", "seed", "self_loops"} ELSE {"directed", "seed"}

\* barabasi_albert was called with 1 <= m < n and recognized keywords only
ValidBA == IsBA /\ args.m >= 1 /\ args.n > args.m /\ kwargs \subseteq Recognized

\* the edges node k inserted as their first endpoint
EdgesFrom(k) == {x \in 1..Len(G.edges) : G.edges[x][1] = k}

RECURSIVE WeightSum(_)
WeightSum(S) ==
    IF S = {} THEN 0
    ELSE LET u == CHOOSE v \in S : TRUE
         IN  Weight(G, args.directed, u) + WeightSum(S \ {u})

\* the nodes below the new node that are not yet connected to it
Eligible == {u \in 0..(new_node_idx - 1) : ~HasEdge(G, args.directed, new_node_idx, u)}

\* the number of candidate pairs of erdos_renyi
PairCount ==
    IF args.directed
    THEN (IF args.self_loops THEN args.n * args.n ELSE args.n * (args.n - 1))
    ELSE (IF args.self_loops THEN (args.n * (args.n + 1)) \div 2
                             ELSE (args.n * (args.n - 1)) \div 2)

\* C1: a valid barabasi_albert(n, m) never raises and returns n nodes and
\* m + m*(n-m-1) edges: first the m bootstrap edges (m,0)..(m,m-1), then exactly
\* m edges from each node m+1..n-1, one per draw.
C1_EdgeCount ==
    ValidBA =>
        /\ pc # "error"
        /\ pc = "done" =>
              /\ G.nodes = args.n
              /\ Len(G.edges) = args.m + args.m * (args.n - args.m - 1)
              /\ \A x \in 1..args.m : G.edges[x] = <<args.m, x - 1>>
              /\ \A k \in (args.m + 1)..(args.n - 1) : Cardinality(EdgesFrom(k)) = args.m
              /\ draws = args.m * (args.n - args.m - 1)

C1_Witness ==
    pc = "done" /\ ValidBA /\ args.m >= 2 /\ args.n >= args.m + 2 /\ Len(G.edges) >= 6

\* C2: in barabasi_albert the targets selected in an attachment round are
\* pairwise distinct indices below the new node; no duplicate edge and no
\* self-loop is ever inserted.
C2_DistinctTargets ==
    IsBA =>
        /\ err # "DuplicateEdge"
        /\ \A x \in 1..Len(round_targets) :
              /\ round_targets[x] < new_node_idx
              /\ \A y \in 1..Len(round_targets) :
                    (x # y /\ round_targets[x] >= 0) => round_targets[x] # round_targets[y]
        /\ \A x \in 1..Len(G.edges) :
              /\ G.edges[x][1] # G.edges[x][2]
              /\ \A y \in 1..Len(G.edges) :
                    x # y => /\ G.edges[x] # G.edges[y]
                             /\ G.edges[x] # <<G.edges[y][2], G.edges[y][1]>>

C2_Witness ==
    /\ pc = "ba_grow"
    /\ ValidBA
    /\ Len(round_targets) >= 2
    /\ round_targets[1] > round_targets[2]
    /\ round_targets[2] >= 0

\* C3: a completed repetition of the watched seeded invocation has inserted the
\* same edges in the same order as its first completed invocation, whatever
\* calls were made before either.
C3_SameEdges ==
    (pc = "done" /\ args = watch /\ first.set) => G.edges = first.edges

C3_Witness ==
    pc = "done" /\ args = watch /\ first.set /\ IsBA /\ Len(G.edges) > args.m

\* C4: erdos_renyi(n, 1.0, self_loops=false) with n >= 1 returns the complete
\* graph: n*(n-1)/2 edges undirected, n*(n-1) directed.
C4_CompleteGraph ==
    (pc = "done" /\ IsER /\ args.p = <<1, 1>> /\ ~args.self_loops /\ args.n >= 1) =>
        /\ G.nodes = args.n
        /\ Len(G.edges) = PairCount

\* C5: erdos_renyi with n >= 0 makes exactly one draw per candidate pair,
\* whatever p is, and erdos_renyi(n, 0.0) returns n nodes and no edge.
C5_DrawCount ==
    (pc = "done" /\ IsER /\ args.n >= 0) =>
        /\ draws = PairCount
        /\ args.p = <<0, 1>> => (G.nodes = args.n /\ G.edges = <<>>)

C5_Witness ==
    /\ pc = "done"
    /\ IsER
    /\ args.p = <<0, 1>>
    /\ args.self_loops
    /\ ~args.directed
    /\ args.n >= 2
    /\ draws >= 3

\* C6: barabasi_albert with m <= 0 or n <= m fails with InvalidArgument before
\* any node or edge is added and before any draw, and returns no graph.
C6_RejectsBadM ==
    (IsBA /\ kwargs \subseteq Recognized /\ (args.m <= 0 \/ args.n <= args.m)) =>
        /\ pc # "done"
        /\ G = EmptyGraph
        /\ draws = 0
        /\ pc = "error" => err = "InvalidArgument"

\* C7: erdos_renyi with p outside [0,1] or n negative fails with InvalidArgument
\* before any node is created and returns no graph.
C7_RejectsBadP ==
    (IsER /\ kwargs \subseteq Recognized
          /\ (args.p[1] < 0 \/ args.p[1] > args.p[2] \/ args.n < 0)) =>
        /\ pc # "done"
        /\ G = EmptyGraph
        /\ pc = "error" => err = "InvalidArgument"

\* C8: a call with a keyword that is not recognized has raised the error naming
\* the unknown keywords, with no node created, the random source not seeded and
\* no draw made.
C8_UnknownKeyword ==
    (pc # "idle" /\ kwargs \ Recognized # {}) =>
        /\ pc = "error"
        /\ err = "ZenException"
        /\ unknown = kwargs \ Recognized
        /\ G = EmptyGraph
        /\ ~srand_called
        /\ draws = 0

C8_Witness ==
    /\ pc = "error"
    /\ IsBA
    /\ kwargs = {"self_loops", "seed"}
    /\ unknown = {"self_loops"}
    /\ args.n > args.m
    /\ args.m >= 1

\* C9: during the growth of a valid barabasi_albert, num_endpoints minus
\* delta_endpoints is the total weight of the nodes below the new node that are
\* not yet connected to it; at the start of a round num_endpoints is the total
\* weight of all nodes below; the modulus of a pending draw is positive and
\* every scan made so far found a target.
C9_RemainingWeight ==
    (pc = "ba_grow" /\ ValidBA /\ new_node_idx < args.n) =>
        /\ num_endpoints - delta_endpoints = WeightSum(Eligible)
        /\ e = 0 => num_endpoints = WeightSum(0..(new_node_idx - 1))
        /\ e < args.m => Modulus(num_endpoints, delta_endpoints) > 0
        /\ Len(round_targets) = e
        /\ \A x \in 1..Len(round_targets) : round_targets[x] >= 0

C9_Witness ==
    /\ pc = "ba_grow"
    /\ ValidBA
    /\ new_node_idx < args.n
    /\ e >= 1
    /\ e < args.m
    /\ delta_endpoints >= 2

\* the target of the edge a step inserted
NewTarget == G'.edges[Len(G'.edges)][2]

\* C10 as stated: each insertion raises delta_endpoints by the target's weight
\* before the edge, minus 1 when undirected.
C10_AsStated ==
    [][(pc = "ba_grow" /\ Len(G'.edges) = Len(G.edges) + 1) =>
          delta_endpoints' - delta_endpoints =
              IF args.directed THEN Weight(G, TRUE, NewTarget)
                               ELSE Weight(G, FALSE, NewTarget) - 1]_vars

\* C10 amended: each insertion raises delta_endpoints by the target's weight
\* before the edge, undirected (the degree after the insertion minus 1) and
\* directed alike.
C10_DeltaIncrease ==
    [][(pc = "ba_grow" /\ Len(G'.edges) = Len(G.edges) + 1) =>
          /\ delta_endpoints' - delta_endpoints = Weight(G, args.directed, NewTarget)
          /\ ~args.directed =>
                delta_endpoints' - delta_endpoints = Degree(G', NewTarget) - 1]_vars

C10_Witness ==
    /\ pc = "ba_grow"
    /\ ValidBA
    /\ ~args.directed
    /\ e = 2
    /\ delta_endpoints >= 3

====
